---- MODULE Spec2Model ----
(***************************************************************************)
(* LeafLens (src/app.py): the session state of the Streamlit dashboard and *)
(* the three operations that mutate it (Autonomous Cycle, Manual Spray,    *)
(* Blanket Spray), the manual disease marking and the bounded event log.   *)
(*                                                                         *)
(* Litres are kept as integers in tenths of a litre: every amount the      *)
(* program handles (100.0, 1.0, 1.5, 2.0, the slider's 1.0..10.0 in steps  *)
(* of 0.5) is a multiple of 0.5, which binary floating point represents    *)
(* and subtracts exactly, so the integer arithmetic is the program's.      *)
(*                                                                         *)
(* A script run that executes an operation is followed from its start to   *)
(* its st.rerun(); pc is the position of that run.  pc = "wait" is the     *)
(* rendered page waiting for the operator.  The timestamp that add_to_log  *)
(* prefixes to a message is wall-clock text no code reads back; an entry   *)
(* is kept as the message's kind with the values formatted into it.        *)
(* battery_level is set once (line 134) and never read or written again.   *)
(***************************************************************************)
EXTENDS Integers, Sequences, FiniteSets

\* ---------------------------------------------------------------- constants
GRID_ROWS == 4
GRID_COLS == 4
STATE_HEALTHY == 0
STATE_DISEASED == 1
STATE_SPRAYING == 2
STATE_SCANNING == 3
STATE_SPRAYED == 4

\* A disease label is the sequence of the words of its string.
DISEASE_TYPES ==
    << <<"Blight", "Severe">>, <<"Rust", "Moderate">>,
       <<"Powdery", "Mildew", "Moderate">>, <<"Leaf", "Spot", "Low">>,
       <<"Aphids", "Severe">>, <<"Nematodes", "Low">> >>

\* In litres, as the source writes them.
BASE_SPRAY_AMOUNT == 1
TANK_CAPACITY_LITERS == 100
\* 1.5 L, in tenths of a litre.
BLANKET_SPRAY_AMOUNT == 15
\* The length add_to_log keeps the log to.
LOG_LIMIT == 20

\* Litres to tenths of a litre.
Tenths(litres) == 10 * litres

\* The slider of the manual amount: 1.0 .. 10.0 in steps of 0.5.
SliderValues == {a \in Tenths(1)..Tenths(10) : a % 5 = 0}

\* ------------------------------------------------------------------- bounds
\* Operations (and effective disease markings) started in one session.
MaxOps == 5

\* The manual amounts the operator is taken to pick: the slider's default
\* 2.5 L and its maximum 10.0 L.
ManualAmounts == {25, 100} \cap SliderValues
\* The cells the operator is taken to target with a manual spray.
ManualCells == {<<0, 0>>}
\* The tiles the operator is taken to click on the dashboard.
ClickIndices == {5, 9}

\* random.sample draws a prefix of a shuffle of all_coords; the shuffles
\* taken into account.
Shuffles ==
    { << <<0, 0>>, <<2, 1>>, <<1, 3>>, <<3, 2>>, <<0, 2>>, <<1, 0>>,
         <<2, 3>>, <<3, 0>>, <<0, 1>>, <<1, 1>>, <<2, 2>>, <<3, 3>>,
         <<0, 3>>, <<1, 2>>, <<2, 0>>, <<3, 1>> >> }
\* The successive results of random.choice(DISEASE_TYPES), as indices into
\* the catalogue, taken into account.
ChoiceStreams == { <<4, 2, 1, 6, 5>> }

\* ---------------------------------------------------------------- variables
VARIABLES
    grid_status,            \* st.session_state.grid_status[r, c]
    tank_level,             \* st.session_state.tank_level, tenths of a litre
    sprayed_plots_count,    \* st.session_state.sprayed_plots_count
    event_log,              \* st.session_state.event_log, newest first
    system_status,          \* st.session_state.system_status
    view,                   \* st.session_state.view
    last_scan_results,      \* st.session_state.last_scan_results
    manual_target,          \* st.session_state.manual_target
    pc,                     \* position of the running script
    idx,                    \* position of the loop the script is in
    diseased_coords,        \* local of the autonomous cycle
    total_sprayed_amount,   \* local of the autonomous cycle
    plots_actually_sprayed, \* local of the blanket spray
    total_blanket_used,     \* local of the blanket spray
    clicked_index,          \* what clickable_images returned last
    ops,                    \* history: operations started so far
    pre                     \* history: tank, counter and grid when the
                            \* operation in flight (or the last one) started

vars == << grid_status, tank_level, sprayed_plots_count, event_log,
           system_status, view, last_scan_results, manual_target, pc, idx,
           diseased_coords, total_sprayed_amount, plots_actually_sprayed,
           total_blanket_used, clicked_index, ops, pre >>

\* ------------------------------------------------------------------ helpers
all_coords == {<<r, c>> : r \in 0..(GRID_ROWS - 1), c \in 0..(GRID_COLS - 1)}

\* The cell of a row-major index: r, c = i // GRID_COLS, i % GRID_COLS.
CellOf(i) == << i \div GRID_COLS, i % GRID_COLS >>

\* "word" in disease_name.
Contains(word, disease_name) ==
    \E i \in 1..Len(disease_name) : disease_name[i] = word

\* Mutant: the Moderate branch is missing.
get_pesticide_amount_two_tiers(disease_name) ==
    IF Contains("Severe", disease_name) THEN 20 * BASE_SPRAY_AMOUNT
    ELSE 10 * BASE_SPRAY_AMOUNT

\* Mutant: a Low finding is treated with half the base amount.
get_pesticide_amount_half_low(disease_name) ==
    IF Contains("Severe", disease_name) THEN 20 * BASE_SPRAY_AMOUNT
    ELSE IF Contains("Moderate", disease_name) THEN 15 * BASE_SPRAY_AMOUNT
    ELSE 5 * BASE_SPRAY_AMOUNT

\* Lines 122-128, in tenths of a litre.
get_pesticide_amount(disease_name) ==
    IF Contains("Severe", disease_name) THEN 20 * BASE_SPRAY_AMOUNT
    ELSE IF Contains("Moderate", disease_name) THEN 15 * BASE_SPRAY_AMOUNT
    ELSE 10 * BASE_SPRAY_AMOUNT

\* A log entry: the message's kind and the values formatted into it.
Msg(kind, x, y, z) == [msg |-> kind, x |-> x, y |-> y, z |-> z]

\* Mutant: pop(0) for pop(): a full log drops the entry just inserted.
add_to_log_pop_first(log, entry) ==
    LET inserted == <<entry>> \o log
    IN  IF Len(inserted) > LOG_LIMIT THEN Tail(inserted) ELSE inserted

\* event_log after add_to_log(entry).
add_to_log(log, entry) ==
    LET inserted == <<entry>> \o log
    IN  IF Len(inserted) > LOG_LIMIT
        THEN SubSeq(inserted, 1, Len(inserted) - 1)
        ELSE inserted

\* is_running, as the sidebar computes it when the page is rendered.
is_running == system_status # "Idle"

NoScan == [is_none |-> TRUE, items |-> <<>>]
NoTarget == [present |-> FALSE, coords |-> <<0, 0>>, amount |-> 0]
Snapshot == [tank |-> tank_level, count |-> sprayed_plots_count,
             grid |-> grid_status]

\* ------------------------------------------------------------------- Init
\* Mutant: the state initialization without the call of add_to_log that
\* follows it.
InitSilent ==
    /\ grid_status = [cell \in all_coords |-> STATE_HEALTHY]
    /\ tank_level = Tenths(TANK_CAPACITY_LITERS)
    /\ sprayed_plots_count = 0
    /\ event_log = <<>>
    /\ system_status = "Idle"
    /\ view = "dashboard"
    /\ last_scan_results = NoScan
    /\ manual_target = NoTarget
    /\ pc = "wait"
    /\ idx = 0
    /\ diseased_coords = {}
    /\ total_sprayed_amount = 0
    /\ plots_actually_sprayed = 0
    /\ total_blanket_used = 0
    /\ clicked_index = -1
    /\ ops = 0
    /\ pre = [tank |-> Tenths(TANK_CAPACITY_LITERS), count |-> 0,
              grid |-> [cell \in all_coords |-> STATE_HEALTHY]]

\* The state after the first run of the script (lines 131-142).
Init ==
    /\ grid_status = [cell \in all_coords |-> STATE_HEALTHY]
    /\ tank_level = Tenths(TANK_CAPACITY_LITERS)
    /\ sprayed_plots_count = 0
    /\ event_log = add_to_log(<<>>, Msg("initialized", 0, 0, 0))
    /\ system_status = "Idle"
    /\ view = "dashboard"
    /\ last_scan_results = NoScan
    /\ manual_target = NoTarget
    /\ pc = "wait"
    /\ idx = 0
    /\ diseased_coords = {}
    /\ total_sprayed_amount = 0
    /\ plots_actually_sprayed = 0
    /\ total_blanket_used = 0
    /\ clicked_index = -1
    /\ ops = 0
    /\ pre = [tank |-> Tenths(TANK_CAPACITY_LITERS), count |-> 0,
              grid |-> [cell \in all_coords |-> STATE_HEALTHY]]

\* ------------------------------------------------- dashboard and review view
\* Mutant: the handler lets only a Healthy cell be marked.
MarkableHealthyOnly(status) == status = STATE_HEALTHY

\* The click handler's test of the clicked cell (line 261).
Markable(status) == status \in {STATE_HEALTHY, STATE_SPRAYED}

\* A click on tile i of the dashboard (lines 259-265): a Healthy or Sprayed
\* cell becomes Diseased and the marking is logged; any other click changes
\* nothing but the value the component returned.
ClickGrid ==
    \E i \in ClickIndices :
        LET cell == CellOf(i)
        IN  /\ pc = "wait"
            /\ view = "dashboard"
            /\ clicked_index' = i
            /\ IF Markable(grid_status[cell])
               THEN /\ ops < MaxOps
                    /\ grid_status' = [grid_status EXCEPT ![cell] = STATE_DISEASED]
                    /\ event_log' = add_to_log(event_log,
                                        Msg("marked", cell[1] + 1, cell[2] + 1, 0))
                    /\ ops' = ops + 1
               ELSE UNCHANGED << grid_status, event_log, ops >>
            /\ UNCHANGED << tank_level, sprayed_plots_count, system_status, view,
                            last_scan_results, manual_target, pc, idx,
                            diseased_coords, total_sprayed_amount,
                            plots_actually_sprayed, total_blanket_used, pre >>

\* "Review Last Scan" (lines 180-191).
ClickReview ==
    /\ pc = "wait"
    /\ view = "dashboard"
    /\ ~(is_running \/ last_scan_results.is_none)
    /\ view' = "review_scan"
    /\ clicked_index' = -1
    /\ UNCHANGED << grid_status, tank_level, sprayed_plots_count, event_log,
                    system_status, last_scan_results, manual_target, pc, idx,
                    diseased_coords, total_sprayed_amount,
                    plots_actually_sprayed, total_blanket_used, ops, pre >>

\* Mutant: leaving the review discards the results that were reviewed.
ClickBackDiscards ==
    /\ pc = "wait"
    /\ view = "review_scan"
    /\ view' = "dashboard"
    /\ last_scan_results' = NoScan
    /\ UNCHANGED << grid_status, tank_level, sprayed_plots_count, event_log,
                    system_status, manual_target, pc, idx,
                    diseased_coords, total_sprayed_amount,
                    plots_actually_sprayed, total_blanket_used, clicked_index,
                    ops, pre >>

\* "Back to Dashboard" (lines 336-338).
ClickBack ==
    /\ pc = "wait"
    /\ view = "review_scan"
    /\ view' = "dashboard"
    /\ UNCHANGED << grid_status, tank_level, sprayed_plots_count, event_log,
                    system_status, last_scan_results, manual_target, pc, idx,
                    diseased_coords, total_sprayed_amount,
                    plots_actually_sprayed, total_blanket_used, clicked_index,
                    ops, pre >>

\* --------------------------------------------------------- sidebar buttons
\* A sidebar button that starts an operation is rendered with
\* disabled=is_running; a click stores the view and reruns the script.
ClickStartAutonomous ==
    /\ pc = "wait"
    /\ ~is_running
    /\ ops < MaxOps
    /\ view' = "autonomous_cycle"
    /\ pc' = "run"
    /\ clicked_index' = -1
    /\ ops' = ops + 1
    /\ pre' = Snapshot
    /\ UNCHANGED << grid_status, tank_level, sprayed_plots_count, event_log,
                    system_status, last_scan_results, manual_target, idx,
                    diseased_coords, total_sprayed_amount,
                    plots_actually_sprayed, total_blanket_used >>

ClickSpraySelected ==
    \E coords \in ManualCells, amount \in ManualAmounts :
        /\ pc = "wait"
        /\ ~is_running
        /\ ops < MaxOps
        /\ view' = "manual_spray"
        /\ manual_target' = [present |-> TRUE, coords |-> coords,
                             amount |-> amount]
        /\ pc' = "run"
        /\ clicked_index' = -1
        /\ ops' = ops + 1
        /\ pre' = Snapshot
        /\ UNCHANGED << grid_status, tank_level, sprayed_plots_count, event_log,
                        system_status, last_scan_results, idx, diseased_coords,
                        total_sprayed_amount, plots_actually_sprayed,
                        total_blanket_used >>

ClickSprayEntireField ==
    /\ pc = "wait"
    /\ ~is_running
    /\ ops < MaxOps
    /\ view' = "blanket_spray"
    /\ pc' = "run"
    /\ clicked_index' = -1
    /\ ops' = ops + 1
    /\ pre' = Snapshot
    /\ UNCHANGED << grid_status, tank_level, sprayed_plots_count, event_log,
                    system_status, last_scan_results, manual_target, idx,
                    diseased_coords, total_sprayed_amount,
                    plots_actually_sprayed, total_blanket_used >>

\* --------------------------------------------------------- autonomous cycle
\* Mutant: a draw with replacement, whose repeated cells the set merges.
RandomSampleRepeats(shuffle, num_diseased) ==
    {shuffle[i] : i \in 1..((num_diseased + 1) \div 2)}

\* set(random.sample(all_coords, num_diseased)) (line 350): num_diseased
\* distinct cells, the first of a shuffle of all_coords.
RandomSample(shuffle, num_diseased) == {shuffle[i] : i \in 1..num_diseased}

\* The 0-indexed cell a stored finding names (lines 398 and 413).
FindingCell(result) == << result.coords[1] - 1, result.coords[2] - 1 >>

\* scan_results_to_store after the cells from row-major index i on have been
\* resolved (lines 363-376), "found" findings having been stored before.
RECURSIVE ScanFrom(_, _, _, _)
ScanFrom(i, coords, stream, found) ==
    IF i >= GRID_ROWS * GRID_COLS THEN << >>
    ELSE LET cell == CellOf(i)
             detected_disease == DISEASE_TYPES[stream[found + 1]]
         IN  IF cell \in coords
             THEN << [coords |-> << cell[1] + 1, cell[2] + 1 >>,
                      disease |-> detected_disease,
                      pesticide_used |-> get_pesticide_amount(detected_disease)] >>
                  \o ScanFrom(i + 1, coords, stream, found + 1)
             ELSE ScanFrom(i + 1, coords, stream, found)

\* Mutant: the scan writes the cells it selected and leaves the others.
ScannedGridKeeps(coords) ==
    [cell \in all_coords |->
        IF cell \in coords THEN STATE_DISEASED ELSE grid_status[cell]]

\* grid_status after the scan has resolved every cell (lines 363-381).
ScannedGrid(coords) ==
    [cell \in all_coords |->
        IF cell \in coords THEN STATE_DISEASED ELSE STATE_HEALTHY]

\* Mutant: the second pass trusts the first and tests nothing.
DebitHasEnoughUnchecked(level, amount) == TRUE

\* The tests of the two passes over the findings (lines 401 and 416).
MarkHasEnough(level, amount) == level >= amount
DebitHasEnough(level, amount) == level >= amount

\* Lines 345-346.
AutoBegin ==
    /\ pc = "run"
    /\ view = "autonomous_cycle"
    /\ system_status' = "Scanning"
    /\ event_log' = add_to_log(event_log, Msg("scan_initiated", 0, 0, 0))
    /\ pc' = "auto_scan"
    /\ UNCHANGED << grid_status, tank_level, sprayed_plots_count, view,
                    last_scan_results, manual_target, idx, diseased_coords,
                    total_sprayed_amount, plots_actually_sprayed,
                    total_blanket_used, clicked_index, ops, pre >>

\* Lines 348-390: the draw, the scan of every cell, the findings stored.
\* current_status, the copy that flashes STATE_SCANNING, is only displayed.
AutoScan ==
    \E num_diseased \in 3..5, shuffle \in Shuffles, stream \in ChoiceStreams :
        LET coords == RandomSample(shuffle, num_diseased)
            scan_results_to_store == ScanFrom(0, coords, stream, 0)
        IN  /\ pc = "auto_scan"
            /\ diseased_coords' = coords
            /\ grid_status' = ScannedGrid(coords)
            /\ last_scan_results' = [is_none |-> FALSE,
                                     items |-> scan_results_to_store]
            /\ event_log' = add_to_log(event_log,
                                Msg("scan_complete", Len(scan_results_to_store), 0, 0))
            /\ pc' = "auto_spraying"
            /\ UNCHANGED << tank_level, sprayed_plots_count, system_status, view,
                            manual_target, idx, total_sprayed_amount,
                            plots_actually_sprayed, total_blanket_used,
                            clicked_index, ops, pre >>

\* Mutant: the cycle goes back to Idle once the scan is stored.
StatusAfterScanIdle == "Idle"

\* The status the cycle takes once the scan is stored (line 391).
StatusAfterScan == "Spraying"

\* Lines 391-395.
AutoStartSpraying ==
    /\ pc = "auto_spraying"
    /\ system_status' = StatusAfterScan
    /\ event_log' = add_to_log(event_log, Msg("spraying_initiated", 0, 0, 0))
    /\ total_sprayed_amount' = 0
    /\ idx' = 1
    /\ pc' = "auto_mark"
    /\ UNCHANGED << grid_status, tank_level, sprayed_plots_count, view,
                    last_scan_results, manual_target, diseased_coords,
                    plots_actually_sprayed, total_blanket_used, clicked_index,
                    ops, pre >>

\* Lines 397-403: one turn of the first pass, or its end.
AutoMark ==
    /\ pc = "auto_mark"
    /\ IF idx <= Len(last_scan_results.items)
       THEN LET result == last_scan_results.items[idx]
                amount == result.pesticide_used
            IN  /\ IF MarkHasEnough(tank_level, amount)
                   THEN /\ grid_status' = [grid_status EXCEPT
                                              ![FindingCell(result)] = STATE_SPRAYING]
                        /\ total_sprayed_amount' = total_sprayed_amount + amount
                   ELSE UNCHANGED << grid_status, total_sprayed_amount >>
                /\ idx' = idx + 1
                /\ pc' = pc
       ELSE /\ idx' = 1
            /\ pc' = "auto_debit"
            /\ UNCHANGED << grid_status, total_sprayed_amount >>
    /\ UNCHANGED << tank_level, sprayed_plots_count, event_log, system_status,
                    view, last_scan_results, manual_target, diseased_coords,
                    plots_actually_sprayed, total_blanket_used, clicked_index,
                    ops, pre >>

\* Lines 412-422: one turn of the second pass, or its end.
AutoDebit ==
    /\ pc = "auto_debit"
    /\ IF idx <= Len(last_scan_results.items)
       THEN LET result == last_scan_results.items[idx]
                cell == FindingCell(result)
                amount == result.pesticide_used
            IN  /\ IF DebitHasEnough(tank_level, amount)
                   THEN /\ grid_status' = [grid_status EXCEPT ![cell] = STATE_SPRAYED]
                        /\ sprayed_plots_count' = sprayed_plots_count + 1
                        /\ tank_level' = tank_level - amount
                        /\ UNCHANGED event_log
                   ELSE /\ event_log' = add_to_log(event_log,
                                Msg("spray_failed", cell[1] + 1, cell[2] + 1, 0))
                        /\ UNCHANGED << grid_status, sprayed_plots_count, tank_level >>
                /\ idx' = idx + 1
                /\ pc' = pc
       ELSE /\ pc' = "auto_finish"
            /\ UNCHANGED << grid_status, sprayed_plots_count, tank_level,
                            event_log, idx >>
    /\ UNCHANGED << system_status, view, last_scan_results, manual_target,
                    diseased_coords, total_sprayed_amount,
                    plots_actually_sprayed, total_blanket_used, clicked_index,
                    ops, pre >>

\* Mutant: the cycle ends without setting the status back to Idle.
AutoFinishNotIdle ==
    /\ pc = "auto_finish"
    /\ event_log' = add_to_log(event_log,
                        Msg("cycle_done", Cardinality(diseased_coords),
                            total_sprayed_amount, 0))
    /\ view' = "dashboard"
    /\ pc' = "wait"
    /\ idx' = 0
    /\ diseased_coords' = {}
    /\ total_sprayed_amount' = 0
    /\ UNCHANGED << grid_status, tank_level, sprayed_plots_count, system_status,
                    last_scan_results, manual_target, plots_actually_sprayed,
                    total_blanket_used, clicked_index, ops, pre >>

\* Lines 424-428; the rerun renders the dashboard.
AutoFinish ==
    /\ pc = "auto_finish"
    /\ event_log' = add_to_log(event_log,
                        Msg("cycle_done", Cardinality(diseased_coords),
                            total_sprayed_amount, 0))
    /\ system_status' = "Idle"
    /\ view' = "dashboard"
    /\ pc' = "wait"
    /\ idx' = 0
    /\ diseased_coords' = {}
    /\ total_sprayed_amount' = 0
    /\ UNCHANGED << grid_status, tank_level, sprayed_plots_count,
                    last_scan_results, manual_target, plots_actually_sprayed,
                    total_blanket_used, clicked_index, ops, pre >>

\* ------------------------------------------------------------- manual spray
Max(a, b) == IF a >= b THEN a ELSE b

\* Mutant: the abort tests for an empty tank, not for the amount.
ManualInsufficientEmpty(level, amount) == level <= 0

\* The test of the abort (line 440).
ManualInsufficient(level, amount) == level < amount

\* Mutant: the abort leaves the status the spray set.
StatusAfterAbortKept == "Spraying"

\* The status the abort leaves (line 442).
StatusAfterAbort == "Idle"

\* Lines 432-438.
ManualBegin ==
    /\ pc = "run"
    /\ view = "manual_spray"
    /\ system_status' = "Spraying"
    /\ event_log' = add_to_log(event_log,
                        Msg("manual_started", manual_target.coords[1] + 1,
                            manual_target.coords[2] + 1, manual_target.amount))
    /\ pc' = "manual_check"
    /\ UNCHANGED << grid_status, tank_level, sprayed_plots_count, view,
                    last_scan_results, manual_target, idx, diseased_coords,
                    total_sprayed_amount, plots_actually_sprayed,
                    total_blanket_used, clicked_index, ops, pre >>

\* Lines 440-447: the abort, whose st.rerun() ends the run with
\* manual_target still stored, or the cell set to Spraying.
ManualCheck ==
    /\ pc = "manual_check"
    /\ IF ManualInsufficient(tank_level, manual_target.amount)
       THEN /\ event_log' = add_to_log(event_log,
                                Msg("manual_failed", manual_target.amount,
                                    tank_level, 0))
            /\ system_status' = StatusAfterAbort
            /\ view' = "dashboard"
            /\ pc' = "wait"
            /\ UNCHANGED grid_status
       ELSE /\ grid_status' = [grid_status EXCEPT
                                  ![manual_target.coords] = STATE_SPRAYING]
            /\ pc' = "manual_spraying"
            /\ UNCHANGED << event_log, system_status, view >>
    /\ UNCHANGED << tank_level, sprayed_plots_count, last_scan_results,
                    manual_target, idx, diseased_coords, total_sprayed_amount,
                    plots_actually_sprayed, total_blanket_used, clicked_index,
                    ops, pre >>

\* Mutant: the amount is added to the tank instead of being taken from it.
ManualFinishAdds ==
    /\ pc = "manual_spraying"
    /\ grid_status' = [grid_status EXCEPT ![manual_target.coords] = STATE_SPRAYED]
    /\ tank_level' = Max(0, tank_level + manual_target.amount)
    /\ sprayed_plots_count' = sprayed_plots_count + 1
    /\ event_log' = add_to_log(event_log,
                        Msg("manual_done", manual_target.coords[1] + 1,
                            manual_target.coords[2] + 1, manual_target.amount))
    /\ manual_target' = NoTarget
    /\ system_status' = "Idle"
    /\ view' = "dashboard"
    /\ pc' = "wait"
    /\ UNCHANGED << last_scan_results, idx, diseased_coords,
                    total_sprayed_amount, plots_actually_sprayed,
                    total_blanket_used, clicked_index, ops, pre >>

\* Lines 453-461; the rerun renders the dashboard.
ManualFinish ==
    /\ pc = "manual_spraying"
    /\ grid_status' = [grid_status EXCEPT ![manual_target.coords] = STATE_SPRAYED]
    /\ tank_level' = Max(0, tank_level - manual_target.amount)
    /\ sprayed_plots_count' = sprayed_plots_count + 1
    /\ event_log' = add_to_log(event_log,
                        Msg("manual_done", manual_target.coords[1] + 1,
                            manual_target.coords[2] + 1, manual_target.amount))
    /\ manual_target' = NoTarget
    /\ system_status' = "Idle"
    /\ view' = "dashboard"
    /\ pc' = "wait"
    /\ UNCHANGED << last_scan_results, idx, diseased_coords,
                    total_sprayed_amount, plots_actually_sprayed,
                    total_blanket_used, clicked_index, ops, pre >>

\* ------------------------------------------------------------ blanket spray
\* Mutant: the loop tests for a tank that is not empty.
BlanketHasEnoughNotEmpty(level) == level > 0

\* The test of the debit loop (line 483).
BlanketHasEnough(level) == level >= BLANKET_SPRAY_AMOUNT

\* Mutant: a cell the tank cannot pay for is left as the first loop set it.
BlanketSkippedLeft == STATE_SPRAYING

\* What a cell the tank cannot pay for is set to (line 490).
BlanketSkipped == STATE_HEALTHY

\* Mutant: the counter is recomputed as the number of cells that are Sprayed.
BlanketBeginRecounts ==
    /\ pc = "run"
    /\ view = "blanket_spray"
    /\ system_status' = "Spraying"
    /\ event_log' = add_to_log(event_log, Msg("blanket_initiated", 0, 0, 0))
    /\ grid_status' = [cell \in all_coords |-> STATE_SPRAYING]
    /\ sprayed_plots_count' =
           Cardinality({cell \in all_coords : grid_status'[cell] = STATE_SPRAYED})
    /\ plots_actually_sprayed' = 0
    /\ total_blanket_used' = 0
    /\ idx' = 0
    /\ pc' = "blanket_loop"
    /\ UNCHANGED << tank_level, view, last_scan_results,
                    manual_target, diseased_coords, total_sprayed_amount,
                    clicked_index, ops, pre >>

\* Lines 465-480.
BlanketBegin ==
    /\ pc = "run"
    /\ view = "blanket_spray"
    /\ system_status' = "Spraying"
    /\ event_log' = add_to_log(event_log, Msg("blanket_initiated", 0, 0, 0))
    /\ grid_status' = [cell \in all_coords |-> STATE_SPRAYING]
    /\ plots_actually_sprayed' = 0
    /\ total_blanket_used' = 0
    /\ idx' = 0
    /\ pc' = "blanket_loop"
    /\ UNCHANGED << tank_level, sprayed_plots_count, view, last_scan_results,
                    manual_target, diseased_coords, total_sprayed_amount,
                    clicked_index, ops, pre >>

\* Lines 481-490: the turn of the cell of row-major index idx.
BlanketCell ==
    /\ pc = "blanket_loop"
    /\ idx < GRID_ROWS * GRID_COLS
    /\ IF BlanketHasEnough(tank_level)
       THEN /\ grid_status' = [grid_status EXCEPT ![CellOf(idx)] = STATE_SPRAYED]
            /\ tank_level' = tank_level - BLANKET_SPRAY_AMOUNT
            /\ sprayed_plots_count' = sprayed_plots_count + 1
            /\ plots_actually_sprayed' = plots_actually_sprayed + 1
            /\ total_blanket_used' = total_blanket_used + BLANKET_SPRAY_AMOUNT
       ELSE /\ grid_status' = [grid_status EXCEPT ![CellOf(idx)] = BlanketSkipped]
            /\ UNCHANGED << tank_level, sprayed_plots_count,
                            plots_actually_sprayed, total_blanket_used >>
    /\ idx' = idx + 1
    /\ UNCHANGED << event_log, system_status, view, last_scan_results,
                    manual_target, pc, diseased_coords, total_sprayed_amount,
                    clicked_index, ops, pre >>

\* Lines 492-493, after the last cell.
BlanketWarn ==
    /\ pc = "blanket_loop"
    /\ idx >= GRID_ROWS * GRID_COLS
    /\ IF plots_actually_sprayed < GRID_ROWS * GRID_COLS
       THEN event_log' = add_to_log(event_log,
                            Msg("tank_empty", plots_actually_sprayed, 0, 0))
       ELSE UNCHANGED event_log
    /\ pc' = "blanket_finish"
    /\ UNCHANGED << grid_status, tank_level, sprayed_plots_count, system_status,
                    view, last_scan_results, manual_target, idx,
                    diseased_coords, total_sprayed_amount,
                    plots_actually_sprayed, total_blanket_used, clicked_index,
                    ops, pre >>

\* Mutant: the completion entry is written only when no cell was skipped.
BlanketFinishOtherwise ==
    /\ pc = "blanket_finish"
    /\ IF plots_actually_sprayed < GRID_ROWS * GRID_COLS
       THEN UNCHANGED event_log
       ELSE event_log' = add_to_log(event_log,
                             Msg("blanket_complete", total_blanket_used, 0, 0))
    /\ system_status' = "Idle"
    /\ view' = "dashboard"
    /\ pc' = "wait"
    /\ idx' = 0
    /\ plots_actually_sprayed' = 0
    /\ total_blanket_used' = 0
    /\ UNCHANGED << grid_status, tank_level, sprayed_plots_count,
                    last_scan_results, manual_target, diseased_coords,
                    total_sprayed_amount, clicked_index, ops, pre >>

\* Lines 494-497; the rerun renders the dashboard.
BlanketFinish ==
    /\ pc = "blanket_finish"
    /\ event_log' = add_to_log(event_log,
                        Msg("blanket_complete", total_blanket_used, 0, 0))
    /\ system_status' = "Idle"
    /\ view' = "dashboard"
    /\ pc' = "wait"
    /\ idx' = 0
    /\ plots_actually_sprayed' = 0
    /\ total_blanket_used' = 0
    /\ UNCHANGED << grid_status, tank_level, sprayed_plots_count,
                    last_scan_results, manual_target, diseased_coords,
                    total_sprayed_amount, clicked_index, ops, pre >>

\* ------------------------------------------------------------ specification
Next ==
    \/ ClickGrid
    \/ ClickReview
    \/ ClickBack
    \/ ClickStartAutonomous
    \/ ClickSpraySelected
    \/ ClickSprayEntireField
    \/ AutoBegin
    \/ AutoScan
    \/ AutoStartSpraying
    \/ AutoMark
    \/ AutoDebit
    \/ AutoFinish
    \/ ManualBegin
    \/ ManualCheck
    \/ ManualFinish
    \/ BlanketBegin
    \/ BlanketCell
    \/ BlanketWarn
    \/ BlanketFinish

Spec == Init /\ [][Next]_vars

TypeOK ==
    /\ tank_level \in Int
    /\ pc \in {"wait", "run", "auto_scan", "auto_spraying", "auto_mark",
               "auto_debit", "auto_finish", "manual_check", "manual_spraying",
               "blanket_loop", "blanket_finish"}

\* ------------------------------------------------------------------ claims
Capacity == Tenths(TANK_CAPACITY_LITERS)
NumCells == GRID_ROWS * GRID_COLS
Newest == event_log[1]

\* C1: in every reachable state, the intermediate states of the operations
\* included, 0 <= tank_level <= TANK_CAPACITY_LITERS.
C1_TankWithinCapacity == 0 <= tank_level /\ tank_level <= Capacity

\* A debit pass in progress with less left in the tank than any spray costs.
C1_Witness ==
    /\ pc \in {"auto_debit", "blanket_loop"}
    /\ idx > 1
    /\ tank_level < Tenths(BASE_SPRAY_AMOUNT)
    /\ tank_level < pre.tank

\* The autonomous cycle whose second pass is over, up to the next change.
CycleEnded ==
    \/ pc = "auto_finish"
    \/ pc = "wait" /\ Newest.msg = "cycle_done"

\* The index of the newest entry of a kind in the log.
NewestOf(kind) ==
    CHOOSE i \in 1..Len(event_log) :
        /\ event_log[i].msg = kind
        /\ \A j \in 1..(i - 1) : event_log[j].msg # kind

\* The failed-treatment entries the cycle logged for a cell.
FailedEntries(cell) ==
    {i \in 1..(NewestOf("scan_initiated") - 1) :
        event_log[i] = Msg("spray_failed", cell[1] + 1, cell[2] + 1, 0)}

Untreated(result) == grid_status[FindingCell(result)] # STATE_SPRAYED

\* C2: when an autonomous cycle has completed, every finding that was not
\* treated has its cell Diseased, and exactly one failed-treatment entry was
\* logged for it.
C2_UntreatedLeftDiseased ==
    CycleEnded =>
        \A j \in 1..Len(last_scan_results.items) :
            LET result == last_scan_results.items[j]
            IN  Untreated(result) =>
                    /\ grid_status[FindingCell(result)] = STATE_DISEASED
                    /\ Cardinality(FailedEntries(FindingCell(result))) = 1

\* The findings, by index, that are treated when they are taken in order from
\* index j on with "level" in the tank, each treated one debiting the tank.
RECURSIVE TreatedInOrder(_, _, _)
TreatedInOrder(level, items, j) ==
    IF j > Len(items) THEN {}
    ELSE IF level >= items[j].pesticide_used
         THEN {j} \cup TreatedInOrder(level - items[j].pesticide_used, items, j + 1)
         ELSE TreatedInOrder(level, items, j + 1)

RECURSIVE SumAmounts(_, _)
SumAmounts(items, indices) ==
    IF indices = {} THEN 0
    ELSE LET j == CHOOSE k \in indices : TRUE
         IN  items[j].pesticide_used + SumAmounts(items, indices \ {j})

\* The row-major index of the cell a finding names.
RowMajor(result) == FindingCell(result)[1] * GRID_COLS + FindingCell(result)[2]

\* C3: the findings are stored and processed in row-major order; a finding is
\* treated iff the tank, after the debits of the earlier findings, holds its
\* amount; the treated cells end Sprayed, the tank has gone down by the sum
\* of their amounts and the counter up by their number.
C3_TreatedInOrder ==
    CycleEnded =>
        LET items == last_scan_results.items
            treated == TreatedInOrder(pre.tank, items, 1)
        IN  /\ \A j \in 1..(Len(items) - 1) : RowMajor(items[j]) < RowMajor(items[j + 1])
            /\ \A j \in 1..Len(items) :
                   (grid_status[FindingCell(items[j])] = STATE_SPRAYED) <=> (j \in treated)
            /\ tank_level = pre.tank - SumAmounts(items, treated)
            /\ sprayed_plots_count = pre.count + Cardinality(treated)

\* A cycle has ended in which a finding was skipped and a later one treated.
C3_Witness ==
    /\ CycleEnded
    /\ \E j, k \in 1..Len(last_scan_results.items) :
           /\ j < k
           /\ Untreated(last_scan_results.items[j])
           /\ ~Untreated(last_scan_results.items[k])

\* The manual spray that has returned, up to the next change.
ManualEnded == pc = "wait" /\ Newest.msg \in {"manual_failed", "manual_done"}

\* C4: a manual spray asked for more than the tank holds leaves the target
\* cell, the tank and the counter as they were, logs the failure and returns
\* to Idle; any other manual spray ends with the cell Sprayed, the tank
\* debited by the amount and the counter one higher.
C4_ManualSpray ==
    ManualEnded =>
        LET request == event_log[2]
            cell == << request.x - 1, request.y - 1 >>
            amount == request.z
        IN  /\ request.msg = "manual_started"
            /\ system_status = "Idle"
            /\ IF amount > pre.tank
               THEN /\ Newest.msg = "manual_failed"
                    /\ grid_status[cell] = pre.grid[cell]
                    /\ tank_level = pre.tank
                    /\ sprayed_plots_count = pre.count
               ELSE /\ Newest.msg = "manual_done"
                    /\ grid_status[cell] = STATE_SPRAYED
                    /\ tank_level = pre.tank - amount
                    /\ sprayed_plots_count = pre.count + 1

\* A manual spray was refused with pesticide left in the tank.
C4_Witness ==
    /\ ManualEnded
    /\ Newest.msg = "manual_failed"
    /\ 0 < tank_level
    /\ tank_level < event_log[2].z

\* The blanket spray whose loop is over, up to the next change.
BlanketEnded ==
    \/ pc = "blanket_finish"
    \/ pc = "wait" /\ Newest.msg = "blanket_complete"

Min(a, b) == IF a <= b THEN a ELSE b

\* C5: a blanket spray started with T in the tank treats the first
\* k = min(16, floor(T / 1.5)) cells in row-major order: they end Sprayed, the
\* others Healthy, the tank at T - 1.5 * k and the counter k higher.
C5_BlanketTreatsFirstK ==
    BlanketEnded =>
        LET k == Min(NumCells, pre.tank \div BLANKET_SPRAY_AMOUNT)
        IN  /\ \A i \in 0..(NumCells - 1) :
                   grid_status[CellOf(i)] =
                       IF i < k THEN STATE_SPRAYED ELSE STATE_HEALTHY
            /\ tank_level = pre.tank - BLANKET_SPRAY_AMOUNT * k
            /\ sprayed_plots_count = pre.count + k

\* A blanket spray has ended that the tank could pay for some cells only.
C5_Witness ==
    /\ BlanketEnded
    /\ pre.tank \div BLANKET_SPRAY_AMOUNT \in 1..(NumCells - 1)
    /\ pre.tank % BLANKET_SPRAY_AMOUNT # 0

\* A blanket spray has treated every cell of a grid that held a Diseased one.
C5_WitnessFull ==
    /\ BlanketEnded
    /\ pre.tank >= BLANKET_SPRAY_AMOUNT * NumCells
    /\ \E cell \in all_coords : pre.grid[cell] = STATE_DISEASED

OpViews == {"autonomous_cycle", "manual_spray", "blanket_spray"}

C7_StatusSequence ==
    [][system_status' # system_status =>
          \/ /\ system_status = "Idle"
             /\ system_status' = "Scanning"
             /\ view = "autonomous_cycle"
          \/ /\ system_status = "Scanning"
             /\ system_status' = "Spraying"
             /\ view = "autonomous_cycle"
          \/ /\ system_status = "Idle"
             /\ system_status' = "Spraying"
             /\ view \in {"manual_spray", "blanket_spray"}
          \/ /\ system_status = "Spraying"
             /\ system_status' = "Idle"]_vars

\* Each of the three operations has run to its end, the manual spray by its
\* abort.
C7_Witness ==
    /\ system_status = "Idle"
    /\ \E i, j, k \in 1..Len(event_log) :
           /\ event_log[i].msg = "cycle_done"
           /\ event_log[j].msg \in {"manual_done", "manual_failed"}
           /\ event_log[k].msg = "blanket_complete"

\* The positions whose step calls add_to_log whatever the state.
AlwaysLogs ==
    pc \in {"run", "auto_scan", "auto_spraying", "auto_finish",
            "manual_spraying", "blanket_finish"}

\* C8: the log never holds more than 20 entries, and every step that logs
\* puts one new entry at index 0 in front of the entries the log held, in
\* their order, without the oldest one when it held 20.
C8_LogBounded ==
    /\ [](Len(event_log) <= 20)
    /\ [][(AlwaysLogs \/ event_log' # event_log) =>
             /\ Len(event_log') >= 1
             /\ Tail(event_log') =
                    IF Len(event_log) >= 20
                    THEN SubSeq(event_log, 1, 19)
                    ELSE event_log]_vars

\* The log is full and the entry of the initialisation has been discarded.
C8_Witness ==
    /\ Len(event_log) = 20
    /\ \A i \in 1..Len(event_log) : event_log[i].msg # "initialized"

\* A step that is a click on a tile of the dashboard.
ClickStep ==
    /\ pc = "wait" /\ pc' = "wait"
    /\ view = "dashboard" /\ view' = "dashboard"
    /\ clicked_index' >= 0

\* C9: marking a cell changes it to Diseased iff it is Healthy or Sprayed and
\* logs it; on any other cell it changes no cell and logs nothing; no other
\* cell, tank_level, sprayed_plots_count or last_scan_results changes.
C9_MarkDiseased ==
    [][ClickStep =>
          LET cell == CellOf(clicked_index')
              marked == grid_status[cell] \in {STATE_HEALTHY, STATE_SPRAYED}
          IN  /\ grid_status'[cell] =
                     IF marked THEN STATE_DISEASED ELSE grid_status[cell]
              /\ \A other \in all_coords \ {cell} :
                     grid_status'[other] = grid_status[other]
              /\ IF marked
                 THEN event_log'[1] = Msg("marked", cell[1] + 1, cell[2] + 1, 0)
                 ELSE event_log' = event_log
              /\ tank_level' = tank_level
              /\ sprayed_plots_count' = sprayed_plots_count
              /\ last_scan_results' = last_scan_results]_vars

\* A cell that is Spraying has been clicked.
C9_Witness ==
    /\ pc = "wait"
    /\ clicked_index >= 0
    /\ grid_status[CellOf(clicked_index)] = STATE_SPRAYING

\* C10: a scan stores between 3 and 5 findings, on pairwise distinct cells of
\* the grid.
C10_ScanFindings ==
    ~last_scan_results.is_none =>
        LET items == last_scan_results.items
        IN  /\ Len(items) \in 3..5
            /\ Len(items) <= GRID_ROWS * GRID_COLS
            /\ \A j \in 1..Len(items) :
                   /\ items[j].coords[1] \in 1..GRID_ROWS
                   /\ items[j].coords[2] \in 1..GRID_COLS
            /\ \A j, k \in 1..Len(items) :
                   j # k => items[j].coords # items[k].coords

\* A scan of a grid that held Sprayed and Diseased cells has stored 5 findings.
C10_Witness ==
    /\ pc = "auto_spraying"
    /\ Len(last_scan_results.items) = 5
    /\ \E a, b \in all_coords :
           pre.grid[a] = STATE_SPRAYED /\ pre.grid[b] = STATE_DISEASED

\* The session is in its initial state: nothing has been started or marked.
InitialSession == ops = 0

\* The defaults of lines 131-140, but for the event log.
InitialDefaults ==
    /\ \A cell \in all_coords : grid_status[cell] = STATE_HEALTHY
    /\ tank_level = Capacity
    /\ sprayed_plots_count = 0
    /\ system_status = "Idle"
    /\ last_scan_results.is_none

\* C11 as stated: the initial session state has every cell Healthy, a full
\* tank, a zero counter, status Idle, no last scan results and an empty
\* event log.
C11_InitialStateEmptyLog ==
    InitialSession => InitialDefaults /\ event_log = <<>>

\* C11, amended: the initial session state has every cell Healthy, a full
\* tank, a zero counter, status Idle, no last scan results, and an event log
\* that holds exactly one entry, the initialization message.
C11_InitialState ==
    InitialSession =>
        InitialDefaults /\ event_log = << Msg("initialized", 0, 0, 0) >>

\* The session has just been created and waits for the operator.
C11_Witness ==
    /\ InitialSession
    /\ pc = "wait"
    /\ view = "dashboard"
    /\ Len(event_log) = 1

\* The entries a Blanket Spray can write after its "initiated" entry.
BlanketClosing == {"tank_empty", "blanket_complete"}

\* A Blanket Spray was the last thing to happen: its "initiated" entry is in
\* the log with nothing but its own closing entries in front of it.
BlanketStart ==
    CHOOSE p \in 0..Len(event_log) :
        \/ /\ p > 0
           /\ event_log[p].msg = "blanket_initiated"
           /\ \A j \in 1..(p - 1) : event_log[j].msg \in BlanketClosing
        \/ /\ p = 0
           /\ ~\E q \in 1..Len(event_log) :
                  /\ event_log[q].msg = "blanket_initiated"
                  /\ \A j \in 1..(q - 1) : event_log[j].msg \in BlanketClosing
BlanketWasLast ==
    /\ pc = "wait"
    /\ Newest.msg \in BlanketClosing \cup {"blanket_initiated"}
    /\ BlanketStart > 0
BlanketRecorded(kind) ==
    \E j \in 1..(BlanketStart - 1) : event_log[j].msg = kind
BlanketTreated == sprayed_plots_count - pre.count

\* C12 as stated: a Blanket Spray records the tank-exhaustion warning iff
\* fewer than all 16 cells were treated, and records the completion entry
\* otherwise, i.e. only when all 16 cells were treated.
C12_WarningOrCompletion ==
    BlanketWasLast =>
        /\ BlanketRecorded("tank_empty") <=> BlanketTreated < NumCells
        /\ BlanketRecorded("blanket_complete") <=> ~(BlanketTreated < NumCells)

\* C12, amended: a Blanket Spray records the tank-exhaustion warning, with
\* the number of treated cells, iff fewer than all 16 cells were treated,
\* and it records the completion entry, with the litres used, in every case
\* as its last entry.
C12_WarningAndCompletion ==
    [](BlanketWasLast =>
          /\ BlanketRecorded("tank_empty") <=> BlanketTreated < NumCells
          /\ BlanketRecorded("blanket_complete")
          /\ Newest = Msg("blanket_complete",
                          BLANKET_SPRAY_AMOUNT * BlanketTreated, 0, 0)
          /\ IF BlanketTreated < NumCells
             THEN /\ BlanketStart = 3
                  /\ event_log[2] = Msg("tank_empty", BlanketTreated, 0, 0)
             ELSE BlanketStart = 2)

\* A Blanket Spray that treated some but not all of the cells has ended.
C12_Witness ==
    /\ BlanketWasLast
    /\ BlanketTreated > 0
    /\ BlanketTreated < NumCells
    /\ BlanketRecorded("tank_empty")
    /\ BlanketRecorded("blanket_complete")

\* C13: tank_level is monotonically non-increasing: no step of a cycle, a
\* manual spray, a blanket spray or a disease marking raises it above its
\* value in the preceding state.
C13_TankNonIncreasing == [][tank_level' <= tank_level]_vars

\* A manual spray has taken its amount from the tank.
C13_Witness ==
    /\ pc = "wait"
    /\ Newest.msg = "manual_done"
    /\ tank_level = pre.tank - Newest.z
    /\ Newest.z > 0

\* C14: sprayed_plots_count is monotonically non-decreasing over every step,
\* also over the scan and the blanket spray that reset Sprayed cells.
C14_CountNonDecreasing ==
    [][sprayed_plots_count' >= sprayed_plots_count]_vars

\* A scan, or a blanket spray short of pesticide, has reset a cell that was
\* Sprayed to Healthy, and the counter still counts it.
C14_Witness ==
    /\ pc \in {"auto_spraying", "blanket_finish"}
    /\ \E cell \in all_coords :
           /\ pre.grid[cell] = STATE_SPRAYED
           /\ grid_status[cell] = STATE_HEALTHY
    /\ sprayed_plots_count >= pre.count
    /\ pre.count > 0

\* The cells of the stored findings.
StoredCells ==
    {FindingCell(last_scan_results.items[j]) :
        j \in 1..Len(last_scan_results.items)}
AfterScan == {"auto_spraying", "auto_mark", "auto_debit", "auto_finish"}

\* C15: last_scan_results is written only by the scan step of a cycle,
\* which replaces it wholesale by the findings of that scan; every other
\* step leaves it unchanged, and it is absent until the first scan.
C15_ScanResultsFrame ==
    /\ [][/\ last_scan_results' # last_scan_results => pc = "auto_scan"
          /\ pc = "auto_scan" =>
                 /\ ~last_scan_results'.is_none
                 /\ StoredCells' = diseased_coords'
                 /\ StoredCells' =
                        {cell \in all_coords : grid_status'[cell] = STATE_DISEASED}
                 /\ Len(last_scan_results'.items) = Cardinality(StoredCells')]_vars
    /\ [](pc \in AfterScan => StoredCells = diseased_coords)
    /\ [](last_scan_results.is_none =>
              /\ last_scan_results.items = <<>>
              /\ \A j \in 1..Len(event_log) :
                     event_log[j].msg \notin {"scan_complete", "cycle_done"})

\* Results of a scan are stored, and a marking, a manual spray or a blanket
\* spray has happened since that cycle.
C15_Witness ==
    /\ pc = "wait"
    /\ ~last_scan_results.is_none
    /\ Newest.msg \in {"marked", "manual_done", "blanket_complete"}
    /\ StoredCells # {cell \in all_coords : grid_status[cell] = STATE_DISEASED}

\* C16: immediately after the scan step each of the 16 cells is Diseased iff
\* it is one of the cycle's findings and Healthy otherwise, whatever it was
\* before the scan.
C16_ScanOverwritesGrid ==
    [](pc = "auto_spraying" =>
          /\ StoredCells = diseased_coords
          /\ \A cell \in all_coords :
                 grid_status[cell] =
                     IF cell \in StoredCells THEN STATE_DISEASED ELSE STATE_HEALTHY)

\* The scan has just ended on a grid in which a Sprayed cell and a Diseased
\* cell were not selected, and both are Healthy.
C16_Witness ==
    /\ pc = "auto_spraying"
    /\ \E a, b \in all_coords \ StoredCells :
           /\ pre.grid[a] = STATE_SPRAYED
           /\ pre.grid[b] = STATE_DISEASED
           /\ grid_status[a] = STATE_HEALTHY
           /\ grid_status[b] = STATE_HEALTHY

\* The severity a label is tagged with: the word in its parentheses, which
\* is its last word.
SeverityTag(label) == label[Len(label)]
AmountForSeverity(tag) ==
    CASE tag = "Severe" -> 20
      [] tag = "Moderate" -> 15
      [] OTHER -> 10
Catalog == {DISEASE_TYPES[i] : i \in 1..Len(DISEASE_TYPES)}
\* Labels that are not of the catalog and carry no severity.
OtherLabels == { <<"Unknown">>, <<"Leaf", "Curl">> }

\* get_pesticide_amount on every label of the catalog, and on labels outside
\* it, gives the amount of the label's severity.
CatalogAmounts ==
    \A label \in Catalog \cup OtherLabels :
        get_pesticide_amount(label) = AmountForSeverity(SeverityTag(label))

\* C17: the amount of every stored finding is the one of the severity of its
\* label, and so is the amount of every label of the catalog: Severe 2.0 L,
\* Moderate 1.5 L, Low or any other label 1.0 L.
C17_AmountBySeverity ==
    [](/\ CatalogAmounts
      /\ \A j \in 1..Len(last_scan_results.items) :
             LET result == last_scan_results.items[j]
             IN  /\ result.disease \in Catalog
                 /\ result.pesticide_used =
                        AmountForSeverity(SeverityTag(result.disease)))

\* The stored findings hold a Severe, a Moderate and a Low label.
C17_Witness ==
    /\ ~last_scan_results.is_none
    /\ \A tag \in {"Severe", "Moderate", "Low"} :
           \E j \in 1..Len(last_scan_results.items) :
               /\ SeverityTag(last_scan_results.items[j].disease) = tag
               /\ last_scan_results.items[j].pesticide_used =
                      AmountForSeverity(tag)

\* The steps of the script while an operation is in flight.
OperationStep ==
    \/ AutoBegin \/ AutoScan \/ AutoStartSpraying
    \/ AutoMark \/ AutoDebit \/ AutoFinish
    \/ ManualBegin \/ ManualCheck \/ ManualFinish
    \/ BlanketBegin \/ BlanketCell \/ BlanketWarn \/ BlanketFinish

\* A session whose tank is low: the state four blanket sprays of the full
\* tank (24.0 L each) end in, with 4.0 L left. The four sprays count as one
\* operation towards MaxOps, so that further operations fit.
TankLow ==
    /\ grid_status = [cell \in all_coords |-> STATE_SPRAYED]
    /\ tank_level = Tenths(TANK_CAPACITY_LITERS)
                        - 4 * BLANKET_SPRAY_AMOUNT * GRID_ROWS * GRID_COLS
    /\ sprayed_plots_count = 4 * GRID_ROWS * GRID_COLS
    /\ event_log =
           LET full == << Msg("blanket_complete",
                              BLANKET_SPRAY_AMOUNT * GRID_ROWS * GRID_COLS, 0, 0),
                          Msg("blanket_initiated", 0, 0, 0) >>
           IN  full \o full \o full \o full
               \o << Msg("initialized", 0, 0, 0) >>
    /\ system_status = "Idle"
    /\ view = "dashboard"
    /\ last_scan_results = NoScan
    /\ manual_target = NoTarget
    /\ pc = "wait"
    /\ idx = 0
    /\ diseased_coords = {}
    /\ total_sprayed_amount = 0
    /\ plots_actually_sprayed = 0
    /\ total_blanket_used = 0
    /\ clicked_index = -1
    /\ ops = 1
    /\ pre = [tank |-> Tenths(TANK_CAPACITY_LITERS)
                          - 3 * BLANKET_SPRAY_AMOUNT * GRID_ROWS * GRID_COLS,
              count |-> 3 * GRID_ROWS * GRID_COLS,
              grid |-> [cell \in all_coords |-> STATE_SPRAYED]]

\* The script, once started, is run on: no operator is needed for its next
\* step. Sessions start fresh or with the tank low.
FairInit == Init \/ TankLow
FairSpec == FairInit /\ [][Next]_vars /\ WF_vars(OperationStep)

\* C18: every started operation runs to completion: from any state in which
\* a cycle, a manual spray or a blanket spray has started, system_status
\* eventually is Idle again with the view back on the dashboard.
C18_RunsToCompletion ==
    (pc # "wait") ~>
        (pc = "wait" /\ system_status = "Idle" /\ view = "dashboard")

\* An operation that was started on an empty tank has returned.
C18_Witness ==
    /\ pc = "wait"
    /\ system_status = "Idle"
    /\ view = "dashboard"
    /\ pre.tank = 0
    /\ Newest.msg \in {"cycle_done", "manual_failed", "blanket_complete"}

\* C19: Scanning and Spraying are transient: whenever system_status is Idle
\* every grid cell is Healthy, Diseased or Sprayed.
C19_IdleCellsSettled ==
    system_status = "Idle" =>
        \A cell \in all_coords :
            grid_status[cell] \in {STATE_HEALTHY, STATE_DISEASED, STATE_SPRAYED}

\* C20: the figures of the cycle's completion entry match what happened: the
\* number of grids it reports as treated is the number of findings whose
\* cells ended Sprayed, and the litres it reports as used are the litres the
\* tank lost during the cycle.
C20_CompletionFigures ==
    (pc = "wait" /\ Newest.msg = "cycle_done") =>
        /\ Newest.x =
               Cardinality({cell \in StoredCells :
                                grid_status[cell] = STATE_SPRAYED})
        /\ Newest.y = pre.tank - tank_level

\* The tank holds less than the base amount of 1.0 L.
TankBelowBase == tank_level < Tenths(BASE_SPRAY_AMOUNT)

\* Every spray costs at least 1.0 L: no test of the three operations lets a
\* tank below 1.0 L pay, for any label of the catalog and any amount of the
\* slider.
EverySprayCostsBase ==
    \A level \in 0..(Tenths(BASE_SPRAY_AMOUNT) - 1) :
        /\ \A label \in Catalog :
               /\ ~MarkHasEnough(level, get_pesticide_amount(label))
               /\ ~DebitHasEnough(level, get_pesticide_amount(label))
        /\ \A amount \in SliderValues : ManualInsufficient(level, amount)
        /\ ~BlanketHasEnough(level)

\* C21: there is no refill and every spray costs at least 1.0 L, so once
\* tank_level is below 1.0 L, every later step leaves tank_level and
\* sprayed_plots_count as they are and turns no cell to Sprayed.
C21_ExhaustedTankIsFinal ==
    /\ [](EverySprayCostsBase)
    /\ [][TankBelowBase =>
              /\ tank_level' = tank_level
              /\ sprayed_plots_count' = sprayed_plots_count
              /\ \A cell \in all_coords :
                     grid_status'[cell] = STATE_SPRAYED =>
                         grid_status[cell] = STATE_SPRAYED]_vars

\* An operation that was started on a tank below 1.0 L, but not empty, has
\* returned and has left the tank and the counter as they were.
C21_Witness ==
    /\ pc = "wait"
    /\ pre.tank > 0
    /\ pre.tank < Tenths(BASE_SPRAY_AMOUNT)
    /\ tank_level = pre.tank
    /\ sprayed_plots_count = pre.count
    /\ Newest.msg \in {"cycle_done", "manual_failed", "blanket_complete"}

====
